---- MODULE Spec2Model ----
(***************************************************************************)
(* Model of nomad-driver-systemd-nspawn: the unit template                 *)
(* (systemd/template.go), the machine name and the CreateMachine sequence  *)
(* (systemd/machine.go) and the driver entry points (systemd/driver.go).   *)
(***************************************************************************)
EXTENDS Integers, Sequences, FiniteSets, TLC

(***************************************************************************)
(* Bounds of the model.                                                    *)
(***************************************************************************)
\* longest task name, in characters, of the machine-name inputs
MaxNameLen == 2
\* largest number of insertions into an Environment map
MaxEnv == 2
\* number of concurrent CreateMachine calls
NumCalls == 2

(***************************************************************************)
(* Strings.  A string that the code inspects character by character is a   *)
(* sequence of one-character strings; Str flattens it.                     *)
(***************************************************************************)
RECURSIVE Str(_)
Str(cs) == IF cs = <<>> THEN "" ELSE Head(cs) \o Str(Tail(cs))

\* strings.Replace(s, old, new, -1) for a one-character old
Replace(cs, old, new) == [i \in 1..Len(cs) |-> IF cs[i] = old THEN new ELSE cs[i]]

\* strings.Join(elems, sep)
RECURSIVE join(_, _)
join(elems, sep) ==
    IF elems = <<>> THEN ""
    ELSE IF Len(elems) = 1 THEN elems[1]
    ELSE elems[1] \o sep \o join(Tail(elems), sep)

(***************************************************************************)
(* machineName := fmt.Sprintf("%s-%s",                                     *)
(*                    strings.Replace(cfg.Name, "/", "_", -1), cfg.AllocID) *)
(***************************************************************************)
machineName(cfg) == Replace(cfg.Name, "/", "_") \o <<"-">> \o cfg.AllocID

(***************************************************************************)
(* TaskConfig: the zero value of the Go struct.                            *)
(***************************************************************************)
TaskConfig ==
    [ Image |-> "", Boot |-> FALSE, Ephemeral |-> FALSE, ProcessTwo |-> FALSE,
      Parameters |-> <<>>, Environment |-> <<>>, User |-> "",
      WorkingDirectory |-> "", PivotRoot |-> "", Capability |-> <<>>,
      DropCapability |-> <<>>, NoNewPrivileges |-> FALSE, KillSignal |-> 0,
      Personality |-> "", MachineID |-> "", PrivateUsers |-> "",
      NotifyReady |-> FALSE, SystemCallFilter |-> <<>>,
      LimitCPU |-> "", LimitFSIZE |-> "", LimitDATA |-> "", LimitSTACK |-> "",
      LimitCORE |-> "", LimitRSS |-> "", LimitNOFILE |-> "", LimitAS |-> "",
      LimitNPROC |-> "", LimitMEMLOCK |-> "", LimitLOCKS |-> "",
      LimitSIGPENDING |-> "", LimitMSGQUEUE |-> "", LimitNICE |-> "",
      LimitRTPRIO |-> "", LimitRTTIME |-> "", OOMScoreAdjust |-> 0,
      CPUAffinity |-> <<>>, Hostname |-> "", ResolvConf |-> "",
      Timezone |-> "", LinkJournal |-> "",
      ReadOnly |-> FALSE, Volatile |-> "", Bind |-> <<>>, BindReadOnly |-> <<>>,
      TemporaryFileSystem |-> <<>>, Inaccessible |-> <<>>, Overlay |-> <<>>,
      OverlayReadOnly |-> <<>>, PrivateUsersChown |-> FALSE,
      Private |-> FALSE, VirtualEthernet |-> FALSE,
      VirtualEthernetExtra |-> <<>>, Interface |-> <<>>, MACVLAN |-> <<>>,
      IPVLAN |-> <<>>, Bridge |-> "", Zone |-> "", Port |-> <<>> ]

(***************************************************************************)
(* Environment map[string]string.  The keys of the model and their bytes;  *)
(* Go compares strings bytewise.                                           *)
(***************************************************************************)
EnvKeys == {"1", "a", "ab"}
EnvVals == {"2", "b"}
KeyBytes == [k \in EnvKeys |->
               CASE k = "1"  -> <<49>>
                 [] k = "a"  -> <<97>>
                 [] k = "ab" -> <<97, 98>>]

RECURSIVE BytesLess(_, _)
BytesLess(x, y) ==
    IF y = <<>> THEN FALSE
    ELSE IF x = <<>> THEN TRUE
    ELSE IF Head(x) # Head(y) THEN Head(x) < Head(y)
    ELSE BytesLess(Tail(x), Tail(y))

\* the Go string comparison k1 < k2
StrLess(k1, k2) == BytesLess(KeyBytes[k1], KeyBytes[k2])

\* m[k] = v for each <<k, v>> of inserts, in that order
RECURSIVE MapOf(_)
MapOf(inserts) ==
    IF inserts = <<>> THEN [k \in {} |-> ""]
    ELSE LET n    == Len(inserts)
             rest == MapOf(SubSeq(inserts, 1, n - 1))
             kv   == inserts[n]
         IN [k \in (DOMAIN rest) \cup {kv[1]} |-> IF k = kv[1] THEN kv[2] ELSE rest[k]]

\* all orders in which the runtime may hand out the keys of a map
MapKeys(m) ==
    {s \in [1..Cardinality(DOMAIN m) -> DOMAIN m] :
        \A i, j \in DOMAIN s : i # j => s[i] # s[j]}

\* a mutation of Insert: the key goes to the front, whatever it is
InsertAtFront(k, sorted) == <<k>> \o sorted

\* text/template sorts the keys of a map before it ranges over them
RECURSIVE Insert(_, _)
Insert(k, sorted) ==
    IF sorted = <<>> THEN <<k>>
    ELSE IF StrLess(k, Head(sorted)) THEN <<k>> \o sorted
    ELSE <<Head(sorted)>> \o Insert(k, Tail(sorted))

\* a mutation of sortKeys: range in the order the runtime hands out the keys
sortKeysUnsorted(keys) == keys

RECURSIVE sortKeys(_)
sortKeys(keys) == IF keys = <<>> THEN <<>> ELSE Insert(Head(keys), sortKeys(Tail(keys)))

(***************************************************************************)
(* nspawnTemplate, a section at a time; a text is a sequence of lines.     *)
(***************************************************************************)
OnOff(b) == IF b THEN "on" ELSE "off"

\* {{range $_, $v := .Field}}Key={{$v}}{{end}}
Each(key, elems) == [i \in 1..Len(elems) |-> key \o "=" \o elems[i]]

\* {{range $_, $v := .Field}}Key={{join $v ":"}}{{end}}
EachJoined(key, stacks) == [i \in 1..Len(stacks) |-> key \o "=" \o join(stacks[i], ":")]

ExecSection(c, keys) ==
    << "[Exec]",
       "Boot=" \o OnOff(c.Boot),
       "Ephemeral=" \o OnOff(c.Ephemeral),
       "ProcessTwo=" \o OnOff(c.ProcessTwo),
       "Parameters=" \o join(c.Parameters, ",") >>
    \o [i \in 1..Len(keys) |-> "Environment=" \o keys[i] \o "=" \o c.Environment[keys[i]]]
    \o
    << "User=" \o c.User,
       "WorkingDirectory=" \o c.WorkingDirectory,
       "PivotRoot=" \o c.PivotRoot,
       "Capability=" \o join(c.Capability, " "),
       "DropCapability=" \o join(c.DropCapability, " "),
       "NoNewPrivileges=" \o OnOff(c.NoNewPrivileges),
       "KillSignal=" \o ToString(c.KillSignal),
       "Personality=" \o c.Personality,
       "MachineID=" \o c.MachineID,
       "PrivateUsers=" \o c.PrivateUsers,
       "NotifyReady=" \o OnOff(c.NotifyReady),
       "SystemCallFilter=" \o join(c.SystemCallFilter, " "),
       "LimitCPU=" \o c.LimitCPU,
       "LimitFSIZE=" \o c.LimitFSIZE,
       "LimitDATA=" \o c.LimitDATA,
       "LimitSTACK=" \o c.LimitSTACK,
       "LimitCORE=" \o c.LimitCORE,
       "LimitRSS=" \o c.LimitRSS,
       "LimitNOFILE=" \o c.LimitNOFILE,
       "LimitAS=" \o c.LimitAS,
       "LimitNPROC=" \o c.LimitNPROC,
       "LimitMEMLOCK=" \o c.LimitMEMLOCK,
       "LimitLOCKS=" \o c.LimitLOCKS,
       "LimitSIGPENDING=" \o c.LimitSIGPENDING,
       "LimitMSGQUEUE=" \o c.LimitMSGQUEUE,
       "LimitNICE=" \o c.LimitNICE,
       "LimitRTPRIO=" \o c.LimitRTPRIO,
       "LimitRTTIME=" \o c.LimitRTTIME,
       "OOMScoreAdjust=" \o ToString(c.OOMScoreAdjust),
       "CPUAffinity=" \o join(c.CPUAffinity, ","),
       "Hostname=" \o c.Hostname,
       "ResolvConf=" \o c.ResolvConf,
       "Timezone=" \o c.Timezone,
       "LinkJournal=" \o c.LinkJournal,
       "" >>

FilesSection(c) ==
    << "[Files]",
       "ReadOnly=" \o OnOff(c.ReadOnly),
       "Volatile=" \o c.Volatile >>
    \o Each("Bind", c.Bind)
    \o Each("BindReadOnly", c.BindReadOnly)
    \o Each("TemporaryFileSystem", c.TemporaryFileSystem)
    \o Each("Inaccessible", c.Inaccessible)
    \o EachJoined("Overlay", c.Overlay)
    \o EachJoined("OverlayReadOnly", c.OverlayReadOnly)
    \o << "PrivateUsersChown=" \o OnOff(c.PrivateUsersChown),
          "" >>

NetworkSection(c) ==
    << "[Network]",
       "Private=" \o OnOff(c.Private),
       "VirtualEthernet=" \o OnOff(c.VirtualEthernet) >>
    \o Each("VirtualEthernetExtra", c.VirtualEthernetExtra)
    \o << "Interface=" \o join(c.Parameters, " "),
          "MACVLAN=" \o join(c.MACVLAN, " "),
          "IPVLAN=" \o join(c.IPVLAN, " "),
          "Bridge=" \o c.Bridge,
          "Zone=" \o c.Zone >>
    \o Each("Port", c.Port)

\* the pieces tmpl.Execute hands to its writer, in order; mapKeys is the
\* order in which the runtime handed out the keys of c.Environment
Chunks(c, mapKeys) ==
    << ExecSection(c, sortKeys(mapKeys)), FilesSection(c), NetworkSection(c) >>

RECURSIVE Concat(_)
Concat(texts) == IF texts = <<>> THEN <<>> ELSE Head(texts) \o Concat(Tail(texts))

\* tmpl.Execute(buf, c): the whole text
Execute(c, mapKeys) == Concat(Chunks(c, mapKeys))

(***************************************************************************)
(* State.                                                                  *)
(***************************************************************************)
VARIABLES
    \* template renders (systemd/template_test.go, TestTemplate)
    inserts,    \* the insertions that built the Environment map
    data,       \* the TaskConfig handed to tmpl.Execute
    renders,    \* the executions so far: the key order the runtime handed out, the text
    \* machine names
    ids,        \* two task identities (drivers.TaskConfig Name and AllocID)
    names,      \* the machine names derived for them so far
    \* CreateMachine calls
    pc,         \* position of each call
    cfg,        \* cfg *drivers.TaskConfig of each call
    trans,      \* transfer ID PullRaw returned to each call, 0 before
    found,      \* found of each call, once a ListTransfers response was scanned
    wpos,       \* number of pieces each call has written to its file f
    job,        \* what each call received from ch
    ret,        \* (m, err) each call returned
    logged,     \* what each call handed to d.logger.Error
    \* systemd-importd, the file system, systemd
    transfers,  \* IDs of the active transfers
    nextId,     \* the next transfer ID
    files,      \* /etc/systemd/nspawn/<machineName>
    startReqs,  \* StartUnit requests accepted, per unit
    active,     \* units whose start job finished with "done"
    \* RecoverTask
    recovered,  \* the RecoverTask calls so far
    panicked,   \* the plugin process has panicked
    \* machine registry
    registry,   \* state of each registered machine
    lastErr,    \* outcome of the last registry request
    \* driver shutdown
    ctxDone     \* d.ctx has been cancelled (d.signalShutdown was called)

renderVars   == <<inserts, data, renders>>
nameVars     == <<ids, names>>
callVars     == <<pc, cfg, trans, found, wpos, job, ret, logged>>
envVars      == <<transfers, nextId, files, startReqs, active>>
recoverVars  == <<recovered, panicked>>
registryVars == <<registry, lastErr>>
shutdownVars == <<ctxDone>>
vars == <<renderVars, nameVars, callVars, envVars, recoverVars, registryVars, shutdownVars>>

(***************************************************************************)
(* The inputs of the model.                                                *)
(***************************************************************************)
\* the data of TestTemplate
TestData ==
    [TaskConfig EXCEPT !.Boot = TRUE, !.Parameters = <<"1", "2", "3">>,
                       !.Environment = MapOf(<< <<"a", "b">>, <<"1", "2">> >>),
                       !.User = "abc", !.Capability = <<"1", "2", "3">>,
                       !.KillSignal = 127, !.OOMScoreAdjust = 1,
                       !.Overlay = << <<"1", "2", "3">>, <<"2", "4", "6">> >>]

SeqsUpTo(S, n) == UNION {[1..k -> S] : k \in 0..n}

\* the task identities of the CreateMachine calls
Tasks ==
    { [Name |-> <<"a", "/", "b">>, AllocID |-> <<"x">>],
      [Name |-> <<"c">>,           AllocID |-> <<"y">>] }

FirstTask == [Name |-> <<"a", "/", "b">>, AllocID |-> <<"x">>]

NoTask == [Name |-> <<>>, AllocID |-> <<>>]

\* the TaskConfig decoded from a task's driver configuration
ConfigOf(task) == [TestData EXCEPT !.Image = "img", !.Hostname = Str(task.Name)]

\* what tmpl.Execute writes for each task, for each order in which the runtime
\* may hand out the keys of its Environment
UnitText ==
    [t \in Tasks |-> [mapKeys \in MapKeys(ConfigOf(t).Environment) |->
                        Chunks(ConfigOf(t), mapKeys)]]

Procs == 1..NumCalls
UnitPaths == {machineName(t) : t \in Tasks}

Nil == "nil"
\* what systemd may send for a job (machine.go compares with "done" only)
JobResults == {"done", "canceled", "failed"}

NoFile == [exists |-> FALSE, content |-> <<>>]
\* the bytes of a file between its old end and a write beyond it
Hole == <<"<zero bytes>">>

\* a write of one piece at piece offset pos
WriteAt(content, pos, chunk) ==
    IF pos < Len(content) THEN [content EXCEPT ![pos + 1] = chunk]
    ELSE content \o [i \in 1..(pos - Len(content)) |-> Hole] \o <<chunk>>

\* return m, err: the locals of the call are gone, the caller has (m, err)
Return(p, err, msg) ==
    /\ pc' = [pc EXCEPT ![p] = "returned"]
    /\ ret' = [ret EXCEPT ![p] = [m |-> <<>>, err |-> err]]
    /\ logged' = [logged EXCEPT ![p] = msg]
    /\ cfg' = [cfg EXCEPT ![p] = NoTask]
    /\ trans' = [trans EXCEPT ![p] = 0]
    /\ found' = [found EXCEPT ![p] = <<>>]
    /\ wpos' = [wpos EXCEPT ![p] = 0]

(***************************************************************************)
(* CreateMachine (systemd/machine.go), a step at a time.                   *)
(***************************************************************************)
Alive == ~panicked

\* the driver calls CreateMachine(cfg, taskConfig); the calls are numbered in
\* the order in which they begin, and the first call is for FirstTask (the
\* tasks are interchangeable)
CreateMachine(p, task) ==
    /\ Alive /\ pc[p] = "idle"
    /\ \A q \in Procs : q < p => pc[q] # "idle"
    /\ p = 1 => task = FirstTask
    /\ pc' = [pc EXCEPT ![p] = "PullRaw"]
    /\ cfg' = [cfg EXCEPT ![p] = task]
    /\ UNCHANGED <<trans, found, wpos, job, ret, logged, envVars, recoverVars>>

\* trans, err := importdConn.PullRaw(taskConfig.Image, machineName, "no", false)
PullRaw(p) ==
    /\ Alive /\ pc[p] = "PullRaw"
    /\ \/ /\ trans' = [trans EXCEPT ![p] = nextId]
          /\ transfers' = transfers \cup {nextId}
          /\ nextId' = nextId + 1
          /\ pc' = [pc EXCEPT ![p] = "ListTransfers"]
          /\ UNCHANGED <<cfg, found, wpos, ret, logged>>
       \/ /\ Return(p, "PullRaw failed", "")
          /\ UNCHANGED <<transfers, nextId>>
    /\ UNCHANGED <<job, files, startReqs, active, recoverVars>>

\* a mutation of ListTransfers: a failed listing is answered with a new pull
ListTransfersRetriesPull(p) ==
    /\ Alive /\ pc[p] = "ListTransfers"
    /\ \/ /\ found' = [found EXCEPT ![p] = <<trans[p] \in transfers>>]
          /\ pc' = [pc EXCEPT ![p] = "CheckFound"]
       \/ /\ pc' = [pc EXCEPT ![p] = "PullRaw"]
          /\ UNCHANGED found
    /\ UNCHANGED <<cfg, trans, wpos, ret, logged>>
    /\ UNCHANGED <<job, envVars, recoverVars>>

\* ts, err := importdConn.ListTransfers() and the scan of ts for trans.Id
ListTransfers(p) ==
    /\ Alive /\ pc[p] = "ListTransfers"
    /\ \/ /\ found' = [found EXCEPT ![p] = <<trans[p] \in transfers>>]
          /\ pc' = [pc EXCEPT ![p] = "CheckFound"]
          /\ UNCHANGED <<cfg, trans, wpos, ret, logged>>
       \/ Return(p, "ListTransfers failed", "")
    /\ UNCHANGED <<job, envVars, recoverVars>>

\* a mutation of CheckFound: the loop is left whatever found is
CheckFoundAlwaysBreaks(p) ==
    /\ Alive /\ pc[p] = "CheckFound"
    /\ pc' = [pc EXCEPT ![p] = "Create"]
    /\ UNCHANGED <<cfg, trans, found, wpos, job, ret, logged, envVars, recoverVars>>

\* a mutation of CheckFound: the test of found is inverted
CheckFoundBreaksWhenFound(p) ==
    /\ Alive /\ pc[p] = "CheckFound"
    /\ IF ~found[p][1]
       THEN /\ pc' = [pc EXCEPT ![p] = "ListTransfers"]
            /\ found' = [found EXCEPT ![p] = <<>>]
       ELSE /\ pc' = [pc EXCEPT ![p] = "Create"]
            /\ UNCHANGED found
    /\ UNCHANGED <<cfg, trans, wpos, job, ret, logged, envVars, recoverVars>>

\* if !found { break }: leave the loop when not found; poll again when found,
\* with the next iteration's own ts and found
CheckFound(p) ==
    /\ Alive /\ pc[p] = "CheckFound"
    /\ IF found[p][1]
       THEN /\ pc' = [pc EXCEPT ![p] = "ListTransfers"]
            /\ found' = [found EXCEPT ![p] = <<>>]
       ELSE /\ pc' = [pc EXCEPT ![p] = "Create"]
            /\ UNCHANGED found
    /\ UNCHANGED <<cfg, trans, wpos, job, ret, logged, envVars, recoverVars>>

\* f, err := os.Create("/etc/systemd/nspawn/" + machineName)
Create(p) ==
    /\ Alive /\ pc[p] = "Create"
    /\ \/ /\ files' = [files EXCEPT ![machineName(cfg[p])] =
                            [exists |-> TRUE, content |-> <<>>]]
          /\ pc' = [pc EXCEPT ![p] = "Execute"]
          /\ UNCHANGED <<cfg, trans, found, wpos, ret, logged>>
       \/ /\ Return(p, "Create failed", "Create nspawn file failed")
          /\ UNCHANGED files
    /\ UNCHANGED <<job, transfers, nextId, startReqs, active, recoverVars>>

\* err = tmpl.Execute(f, taskConfig): the next piece is written to f, or the
\* write fails
Execute_(p) ==
    /\ Alive /\ pc[p] = "Execute"
    /\ \/ \E mapKeys \in DOMAIN UnitText[cfg[p]] :
            LET chunks == UnitText[cfg[p]][mapKeys]
                mn     == machineName(cfg[p])
            IN /\ files' = [files EXCEPT ![mn].content =
                                WriteAt(@, wpos[p], chunks[wpos[p] + 1])]
               /\ wpos' = [wpos EXCEPT ![p] = @ + 1]
               /\ pc' = [pc EXCEPT ![p] =
                            IF wpos[p] + 1 = Len(chunks) THEN "StartUnit" ELSE "Execute"]
               /\ UNCHANGED <<cfg, trans, found, ret, logged>>
       \/ /\ Return(p, "Execute failed", "Generate nspawn file failed")
          /\ UNCHANGED files
    /\ UNCHANGED <<job, transfers, nextId, startReqs, active, recoverVars>>

\* _, err = dbusConn.StartUnit("systemd-nspawn@<machineName>.service", "replace", ch)
StartUnit(p) ==
    /\ Alive /\ pc[p] = "StartUnit"
    /\ \/ /\ startReqs' = [startReqs EXCEPT ![machineName(cfg[p])] = @ + 1]
          /\ pc' = [pc EXCEPT ![p] = "WaitJob"]
          /\ UNCHANGED <<cfg, trans, found, wpos, ret, logged>>
       \/ /\ Return(p, "StartUnit failed", "Create machine unit failed")
          /\ UNCHANGED startReqs
    /\ UNCHANGED <<job, transfers, nextId, files, active, recoverVars>>

\* job := <-ch; if job != "done" { d.logger.Error(...) }; return
WaitJob(p, result) ==
    /\ Alive /\ pc[p] = "WaitJob"
    /\ job' = [job EXCEPT ![p] = result]
    /\ active' = IF result = "done" THEN active \cup {machineName(cfg[p])} ELSE active
    /\ Return(p, Nil, IF result # "done" THEN "Start machine unit failed" ELSE "")
    /\ UNCHANGED <<transfers, nextId, files, startReqs, recoverVars>>

\* systemd-importd ends a transfer
TransferEnds(id) ==
    /\ id \in transfers
    /\ transfers' = transfers \ {id}
    /\ UNCHANGED <<callVars, nextId, files, startReqs, active, recoverVars>>

(***************************************************************************)
(* RecoverTask (systemd/driver.go): panic("implement me").  A panic ends   *)
(* the plugin process and every call in it.                                *)
(***************************************************************************)
RecoverTask(mn) ==
    /\ Alive
    /\ recovered' = recovered \cup {[registered |-> mn \in active,
                                     result |-> "panic: implement me"]}
    /\ panicked' = TRUE
    /\ pc' = [p \in Procs |-> "crashed"]
    /\ cfg' = [p \in Procs |-> NoTask]
    /\ trans' = [p \in Procs |-> 0]
    /\ found' = [p \in Procs |-> <<>>]
    /\ wpos' = [p \in Procs |-> 0]
    /\ job' = [p \in Procs |-> ""]
    /\ ret' = [p \in Procs |-> [m |-> <<>>, err |-> Nil]]
    /\ logged' = [p \in Procs |-> ""]
    /\ UNCHANGED envVars

Step(p) ==
    \/ PullRaw(p) \/ ListTransfers(p) \/ CheckFound(p)
    \/ Create(p) \/ Execute_(p) \/ StartUnit(p)

DriverInit ==
    /\ pc = [p \in Procs |-> "idle"]
    /\ cfg = [p \in Procs |-> NoTask]
    /\ trans = [p \in Procs |-> 0]
    /\ found = [p \in Procs |-> <<>>]
    /\ wpos = [p \in Procs |-> 0]
    /\ job = [p \in Procs |-> ""]
    /\ ret = [p \in Procs |-> [m |-> <<>>, err |-> Nil]]
    /\ logged = [p \in Procs |-> ""]
    /\ transfers = {}
    /\ nextId = 1
    /\ files = [mn \in UnitPaths |-> NoFile]
    /\ startReqs = [mn \in UnitPaths |-> 0]
    /\ active = {}
    /\ recovered = {}
    /\ panicked = FALSE
    /\ ctxDone = FALSE

RenderIdle == inserts = <<>> /\ data = TaskConfig /\ renders = <<>>
NamesIdle == ids = <<NoTask, NoTask>> /\ names = <<>>
RegistryIdle == registry = <<>> /\ lastErr = <<>>

Init == DriverInit /\ RenderIdle /\ NamesIdle /\ RegistryIdle

Next ==
    \/ \E p \in Procs, task \in Tasks : CreateMachine(p, task) /\ UNCHANGED <<renderVars, nameVars, registryVars, shutdownVars>>
    \/ \E p \in Procs : PullRaw(p) /\ UNCHANGED <<renderVars, nameVars, registryVars, shutdownVars>>
    \/ \E p \in Procs : ListTransfers(p) /\ UNCHANGED <<renderVars, nameVars, registryVars, shutdownVars>>
    \/ \E p \in Procs : CheckFound(p) /\ UNCHANGED <<renderVars, nameVars, registryVars, shutdownVars>>
    \/ \E p \in Procs : Create(p) /\ UNCHANGED <<renderVars, nameVars, registryVars, shutdownVars>>
    \/ \E p \in Procs : Execute_(p) /\ UNCHANGED <<renderVars, nameVars, registryVars, shutdownVars>>
    \/ \E p \in Procs : StartUnit(p) /\ UNCHANGED <<renderVars, nameVars, registryVars, shutdownVars>>
    \/ \E p \in Procs, r \in JobResults : WaitJob(p, r) /\ UNCHANGED <<renderVars, nameVars, registryVars, shutdownVars>>
    \/ \E id \in 1..NumCalls : TransferEnds(id) /\ UNCHANGED <<renderVars, nameVars, registryVars, shutdownVars>>
    \/ \E mn \in UnitPaths : RecoverTask(mn) /\ UNCHANGED <<renderVars, nameVars, registryVars, shutdownVars>>

Spec == Init /\ [][Next]_vars

\* each call in progress keeps running; systemd and systemd-importd owe nothing
FairSpec ==
    Spec /\ \A p \in Procs :
                WF_vars(Step(p) /\ UNCHANGED <<renderVars, nameVars, registryVars, shutdownVars>>)

(***************************************************************************)
(* Driver shutdown (systemd/driver.go).  NewSystemdNSpawnDriver makes      *)
(* ctx, cancel := context.WithCancel(...) and keeps cancel as              *)
(* d.signalShutdown; a call of it cancels d.ctx.  Shutdown, the entry      *)
(* point of the plugin for it, is panic("implement me").  No statement of  *)
(* CreateMachine reads d.ctx.                                              *)
(***************************************************************************)
\* d.signalShutdown(): d.ctx is cancelled
signalShutdown ==
    /\ Alive /\ ~ctxDone
    /\ ctxDone' = TRUE
    /\ UNCHANGED <<renderVars, nameVars, callVars, envVars, recoverVars, registryVars>>

\* Shutdown(ctx): panic("implement me")
Shutdown ==
    /\ Alive
    /\ panicked' = TRUE
    /\ pc' = [p \in Procs |-> "crashed"]
    /\ cfg' = [p \in Procs |-> NoTask]
    /\ trans' = [p \in Procs |-> 0]
    /\ found' = [p \in Procs |-> <<>>]
    /\ wpos' = [p \in Procs |-> 0]
    /\ job' = [p \in Procs |-> ""]
    /\ ret' = [p \in Procs |-> [m |-> <<>>, err |-> Nil]]
    /\ logged' = [p \in Procs |-> ""]
    /\ UNCHANGED <<recovered, envVars, renderVars, nameVars, registryVars, shutdownVars>>

ShutdownNext == Next \/ signalShutdown \/ Shutdown

\* the driver with its shutdown; each call in progress keeps running, systemd
\* and systemd-importd owe nothing
ShutdownSpec ==
    /\ Init /\ [][ShutdownNext]_vars
    /\ \A p \in Procs :
          WF_vars(Step(p) /\ UNCHANGED <<renderVars, nameVars, registryVars, shutdownVars>>)

(***************************************************************************)
(* The template on its own: TestTemplate executes tmpl on a TaskConfig.    *)
(***************************************************************************)
TemplateData ==
    { [TaskConfig EXCEPT !.Boot = b, !.Parameters = ps, !.User = u, !.Interface = is]
        : b \in BOOLEAN, ps \in {<<>>, <<"1", "2", "3">>},
          u \in {"", "abc"}, is \in {<<>>, <<"eth0", "eth1">>} }

RenderInit ==
    /\ inserts \in SeqsUpTo(EnvKeys \X EnvVals, MaxEnv)
    /\ data \in {[d EXCEPT !.Environment = MapOf(inserts)] : d \in TemplateData}
    /\ renders = <<>>
    /\ DriverInit /\ NamesIdle /\ RegistryIdle

\* err := tmpl.Execute(buf, data), twice over
TemplateExecute ==
    /\ Len(renders) < 2
    /\ \E mapKeys \in MapKeys(data.Environment) :
          renders' = Append(renders, [mapKeys |-> mapKeys, text |-> Execute(data, mapKeys)])
    /\ UNCHANGED <<inserts, data, nameVars, callVars, envVars, recoverVars, registryVars, shutdownVars>>

RenderSpec == RenderInit /\ [][TemplateExecute]_vars

(***************************************************************************)
(* The machine name on its own.                                            *)
(***************************************************************************)
NameChars == {"a", "/", "_"}
AllocIDs == {<<"x">>, <<"y">>}
TaskIds == [Name : SeqsUpTo(NameChars, MaxNameLen), AllocID : AllocIDs]

NamesInit ==
    /\ ids \in TaskIds \X TaskIds
    /\ names = <<>>
    /\ DriverInit /\ RenderIdle /\ RegistryIdle

\* the first statement of CreateMachine, for the next identity
DeriveName ==
    /\ Len(names) < Len(ids)
    /\ names' = Append(names, machineName(ids[Len(names) + 1]))
    /\ UNCHANGED <<ids, renderVars, callVars, envVars, recoverVars, registryVars, shutdownVars>>

NameSpec == NamesInit /\ [][DeriveName]_vars

(***************************************************************************)
(* The machine registry.  The repository declares Machine and its states   *)
(* (systemd/machine.go) and leaves GetMachine, KillMachine and             *)
(* TerminateMachine unimplemented; register, transition and terminate      *)
(* follow section 4.4 of the specification.                                *)
(***************************************************************************)
MachineStateOpening == "opening"
MachineStateRunning == "running"
MachineStateClosing == "closing"
MachineStates == {MachineStateOpening, MachineStateRunning, MachineStateClosing}
Unregistered == "unregistered"

Rank(state) ==
    CASE state = MachineStateOpening -> 1
      [] state = MachineStateRunning -> 2
      [] state = MachineStateClosing -> 3

Reply(op, mn, from, to, err) == [op |-> op, name |-> mn, from |-> from, to |-> to, err |-> err]

register(mn) ==
    /\ IF registry[mn] # Unregistered
       THEN /\ lastErr' = Reply("register", mn, registry[mn], MachineStateOpening, "DuplicateMachine")
            /\ UNCHANGED registry
       ELSE /\ registry' = [registry EXCEPT ![mn] = MachineStateOpening]
            /\ lastErr' = Reply("register", mn, Unregistered, MachineStateOpening, Nil)
    /\ UNCHANGED <<renderVars, nameVars, callVars, envVars, recoverVars, shutdownVars>>

\* a mutation of Follows: every change of state is applied
FollowsAnyOrder(from, to) == TRUE

\* a state change follows the order opening, running, closing
Follows(from, to) == Rank(from) < Rank(to)

transition(mn, newState) ==
    /\ IF registry[mn] = Unregistered
       THEN /\ lastErr' = Reply("transition", mn, Unregistered, newState, "MachineNotFound")
            /\ UNCHANGED registry
       ELSE IF Follows(registry[mn], newState)
       THEN /\ registry' = [registry EXCEPT ![mn] = newState]
            /\ lastErr' = Reply("transition", mn, registry[mn], newState, Nil)
       ELSE /\ lastErr' = Reply("transition", mn, registry[mn], newState, "InvalidStateTransition")
            /\ UNCHANGED registry
    /\ UNCHANGED <<renderVars, nameVars, callVars, envVars, recoverVars, shutdownVars>>

terminate(mn) ==
    /\ IF registry[mn] = Unregistered
       THEN /\ lastErr' = Reply("terminate", mn, Unregistered, Unregistered, "MachineNotFound")
            /\ UNCHANGED registry
       ELSE /\ registry' = [registry EXCEPT ![mn] = Unregistered]
            /\ lastErr' = Reply("terminate", mn, registry[mn], Unregistered, Nil)
    /\ UNCHANGED <<renderVars, nameVars, callVars, envVars, recoverVars, shutdownVars>>

RegistryInit ==
    /\ registry = [mn \in UnitPaths |-> Unregistered]
    /\ lastErr = Reply("", <<>>, Unregistered, Unregistered, Nil)
    /\ DriverInit /\ RenderIdle /\ NamesIdle

RegistryNext ==
    \/ \E mn \in UnitPaths : register(mn)
    \/ \E mn \in UnitPaths, newState \in MachineStates : transition(mn, newState)
    \/ \E mn \in UnitPaths : terminate(mn)

RegistrySpec == RegistryInit /\ [][RegistryNext]_vars

(***************************************************************************)
(* The claims.                                                             *)
(***************************************************************************)
Polling(p) == pc[p] \in {"ListTransfers", "CheckFound"}
UnitFile(p) == files[machineName(cfg[p])]
\* p returns in this step
Returns(p) == pc[p] # "returned" /\ pc'[p] = "returned"
\* p returns in this step, having received result from ch
ReturnsAfter(p, result) == Returns(p) /\ job'[p] = result /\ pc[p] = "WaitJob"
\* p returns a failure in this step after it created its unit file: the render
\* failed, the activation request was rejected, or the job ended with
\* something other than "done"
FailsAfterCreate(p) ==
    /\ Returns(p)
    /\ \/ ret'[p].err \in {"Execute failed", "StartUnit failed"}
       \/ \E result \in JobResults \ {"done"} : ReturnsAfter(p, result)

\* C1: a CreateMachine that polls ListTransfers does not poll for ever: when
\* its transfer ID stays in every response, the deadline ends the poll and the
\* call returns (with an image-transfer timeout).  Checked under FairSpec.
C1_PollingEnds == \A p \in Procs : Polling(p) ~> ~Polling(p)

\* C2: when systemd reports a job outcome other than "done" for the activation
\* a CreateMachine requested, the call returns an error, never a nil error.
C2_JobFailureIsAnError ==
    [][\A p \in Procs, result \in JobResults \ {"done"} :
          ReturnsAfter(p, result) => ret'[p].err # Nil]_vars

\* C3: when CreateMachine fails after it created the unit file of its machine
\* name, the file no longer exists at the moment the call returns.
C3_NoUnitFileAfterFailure ==
    [][\A p \in Procs : FailsAfterCreate(p) => ~files'[machineName(cfg[p])].exists]_vars

\* C4: when the activation ends with "done", CreateMachine returns a Machine
\* for the derived machine name and a nil error, never a nil Machine.
C4_DoneReturnsMachine ==
    [][\A p \in Procs :
          ReturnsAfter(p, "done") =>
              /\ ret'[p].err = Nil
              /\ Len(ret'[p].m) = 1
              /\ ret'[p].m[1].Name = Str(machineName(cfg[p]))]_vars

\* C5: the machine name is a deterministic and injective function of the task
\* identity: equal (Name, AllocID) pairs give equal names, distinct pairs give
\* distinct names.  Checked under NameSpec.
C5_MachineNameInjective ==
    Len(names) = 2 => (ids[1] = ids[2] <=> names[1] = names[2])

\* C6: for a fixed TaskConfig, every execution of the template yields the same
\* text, whatever order the runtime hands out the keys of Environment in.
\* Checked under RenderSpec.
C6_RenderDeterministic ==
    \A i, j \in DOMAIN renders : renders[i].text = renders[j].text

\* C6 witness: two executions on a map of two or more keys that the runtime
\* handed out in different orders.
C6_Witness ==
    /\ Len(renders) = 2
    /\ Cardinality(DOMAIN data.Environment) >= 2
    /\ renders[1].mapKeys # renders[2].mapKeys

\* the keys of a map in ascending order
Ascending(m) ==
    CHOOSE s \in MapKeys(m) : \A i, j \in DOMAIN s : i < j => StrLess(s[i], s[j])

\* C7: the text has exactly one line Environment=<key>=<value> per entry of the
\* Environment map, between the Parameters line and the User line, in
\* ascending order of key, whatever the order of insertion.  Checked under
\* RenderSpec.
C7_EnvironmentLinesSorted ==
    \A r \in DOMAIN renders :
        LET text == renders[r].text
            env  == data.Environment
            asc  == Ascending(env)
            n    == Len(asc)
        IN /\ text[5] = "Parameters=" \o join(data.Parameters, ",")
           /\ \A i \in 1..n : text[5 + i] = "Environment=" \o asc[i] \o "=" \o env[asc[i]]
           /\ text[6 + n] = "User=" \o data.User
           /\ Len(text) = n + Len(Execute([data EXCEPT !.Environment = MapOf(<<>>)], <<>>))

\* C7 witness: "a" was inserted before "1", the runtime handed out "a" before
\* "1", and the text was rendered.
C7_Witness ==
    /\ Len(inserts) = 2 /\ inserts[1][1] = "a" /\ inserts[2][1] = "1"
    /\ Len(renders) >= 1 /\ renders[1].mapKeys = <<"a", "1">>

\* a transition request on mn is answered in this step
AnswersTransition(mn) ==
    lastErr' # lastErr /\ lastErr'.op = "transition" /\ lastErr'.name = mn
\* the requests the claim names: running -> opening, and any on a closing machine
AgainstTheOrder(from, to) ==
    \/ from = MachineStateClosing
    \/ from = MachineStateRunning /\ to = MachineStateOpening

\* C8: the state of a registered machine only moves along opening, running,
\* closing: a transition request running -> opening, or any transition request
\* on a closing machine, is rejected with InvalidStateTransition and leaves the
\* state as it was.  Checked under RegistrySpec.
C8_StateMonotonic ==
    [][\A mn \in UnitPaths :
          /\ (registry[mn] # Unregistered /\ registry'[mn] # Unregistered)
                => Rank(registry[mn]) <= Rank(registry'[mn])
          /\ (AnswersTransition(mn) /\ AgainstTheOrder(registry[mn], lastErr'.to))
                => (lastErr'.err = "InvalidStateTransition" /\ registry'[mn] = registry[mn])
      ]_vars

\* C8 witness: a transition request on a closing machine, and a request
\* running -> opening, have been answered.
C8_Witness ==
    /\ lastErr.op = "transition"
    /\ \/ lastErr.from = MachineStateClosing
       \/ lastErr.from = MachineStateRunning /\ lastErr.to = MachineStateOpening
    /\ registry[lastErr.name] = lastErr.from

\* C9: RecoverTask with a MachineName that matches no registered machine
\* returns TaskNotRecoverable to its caller.
C9_RecoverUnknownMachine ==
    \A r \in recovered : ~r.registered => r.result = "TaskNotRecoverable"

\* p issues its pull request in this step
IssuesPull(p) == pc[p] = "PullRaw" /\ pc'[p] \in {"ListTransfers", "returned"}
\* p creates its unit file, or writes to it, in this step
WritesUnitFile(p) == pc[p] \in {"Create", "Execute"} /\ pc'[p] \in {"Execute", "StartUnit"}

RequestsStart(p) == pc[p] = "StartUnit" /\ pc'[p] \in {"WaitJob", "returned"}

\* C11: CreateMachine requests the activation of its unit only after it
\* scanned a ListTransfers response without the transfer ID its own PullRaw
\* returned: never while the last response scanned still holds that ID, never
\* before a response was scanned.
C11_StartAfterTransferGone ==
    [][\A p \in Procs : RequestsStart(p) => trans[p] # 0 /\ found[p] = <<FALSE>>]_vars

\* C11 witness: a call has requested the activation while the transfer of
\* another call is still in the list.
C11_Witness ==
    \E p, q \in Procs :
        /\ pc[p] = "WaitJob" /\ startReqs[machineName(cfg[p])] > 0
        /\ p # q /\ trans[q] \in transfers /\ trans[p] \notin transfers

\* the ListTransfers call of p fails in this step: p leaves the call without a
\* response to scan
ListFails(p) ==
    pc[p] = "ListTransfers" /\ pc'[p] \notin {"ListTransfers", "CheckFound", "crashed"}

\* C12: when a ListTransfers call fails while CreateMachine polls, the call
\* returns an error and stops there: the step creates no file and requests
\* neither a pull nor an activation, and the call takes no step afterwards.
C12_ListFailureAborts ==
    [][\A p \in Procs :
          /\ ListFails(p) =>
                (Returns(p) /\ ret'[p].err # Nil /\ ret'[p].m = <<>> /\ UNCHANGED envVars)
          /\ (pc[p] = "returned" /\ ret[p].err = "ListTransfers failed") =>
                (pc'[p] \in {"returned", "crashed"} /\ ret'[p].err \in {ret[p].err, Nil})
      ]_vars

\* C12 witness: a call returned the failure of ListTransfers; its transfer is
\* still active, no unit file exists and no activation was requested.
C12_Witness ==
    \E p \in Procs :
        /\ pc[p] = "returned" /\ ret[p].err = "ListTransfers failed"
        /\ transfers # {}
        /\ \A mn \in UnitPaths : ~files[mn].exists /\ startReqs[mn] = 0

\* q is between its pull request and its return
InFlight(q) ==
    pc[q] \in {"ListTransfers", "CheckFound", "Create", "Execute", "StartUnit", "WaitJob"}

\* C13: for one machine name at most one starting sequence is in flight: while
\* a CreateMachine for a task identity is between its pull request and its
\* return, no other call for the same identity issues its pull request, writes
\* the unit file or requests the activation.
C13_SingleFlight ==
    [][\A p, q \in Procs :
          (p # q /\ InFlight(q) /\ machineName(cfg[p]) = machineName(cfg[q]))
              => ~(IssuesPull(p) \/ WritesUnitFile(p) \/ RequestsStart(p))]_vars

\* C14: the unit file is written atomically: whenever the file of a machine
\* name exists, its content is the whole rendered unit text, never empty and
\* never a part of it.
C14_UnitFileAtomic ==
    \A t \in Tasks :
        files[machineName(t)].exists =>
            \E mapKeys \in DOMAIN UnitText[t] :
                files[machineName(t)].content = UnitText[t][mapKeys]

\* C15: when the unit of a machine name is already active, a further
\* CreateMachine for the same task identity issues no StartUnit request for
\* that unit.
C15_NoDuplicateActivation ==
    [][\A p \in Procs : RequestsStart(p) => machineName(cfg[p]) \notin active]_vars

\* p is suspended in the poll loop or on the channel of its start job
Suspended(p) == Polling(p) \/ pc[p] = "WaitJob"

\* C16: once the shutdown signal of the driver has been issued, a
\* CreateMachine suspended in the transfer poll loop or waiting for the job
\* of its activation returns in the end, even when the transfer stays in the
\* list and systemd reports no outcome (a call that ended with the plugin
\* process is counted as ended).  Checked under ShutdownSpec.
C16_ShutdownEndsCalls ==
    \A p \in Procs : (ctxDone /\ Suspended(p)) ~> (pc[p] \in {"returned", "crashed"})

\* the interface, MACVLAN, IPVLAN, bridge, zone, extra pairs and ports of c
\* are all unset
NetworkUnset(c) ==
    /\ c.Interface = <<>> /\ c.MACVLAN = <<>> /\ c.IPVLAN = <<>>
    /\ c.Bridge = "" /\ c.Zone = ""
    /\ c.VirtualEthernetExtra = <<>> /\ c.Port = <<>>

\* C17: the Interface= line of the network section is the Interface list of
\* the TaskConfig joined by single spaces and depends on no other field; with
\* the network lists and names unset, the lines Interface=, MACVLAN=, IPVLAN=,
\* Bridge= and Zone= end the text with empty values, whatever Parameters
\* holds.  Checked under RenderSpec.
C17_InterfaceLine ==
    \A r \in DOMAIN renders :
        LET text == renders[r].text
            n    == Len(text)
        IN /\ text[n - 4 - Len(data.Port)] = "Interface=" \o join(data.Interface, " ")
           /\ NetworkUnset(data) =>
                 SubSeq(text, n - 4, n) =
                     <<"Interface=", "MACVLAN=", "IPVLAN=", "Bridge=", "Zone=">>
====
